---- MODULE Spec2Model ----
(***************************************************************************)
(* State-machine model of the cltv-scan frontend: the mempool monitor      *)
(* (EventSource lifecycle and bounded event buffer), the severity          *)
(* derivation getMaxSeverity, the API client (URL builders and the steps   *)
(* of one request/response call), and the four request/response views     *)
(* (transaction, block, scan, lightning).                                  *)
(***************************************************************************)
EXTENDS Integers, Sequences, FiniteSets, TLC

(***************************************************************************)
(* Program constants and model bounds                                      *)
(***************************************************************************)

\* const MAX_EVENTS = 200
MAX_EVENTS == 200

\* EventSource objects the monitor may create in one behaviour
MaxHandles == 2
\* 'tx' messages delivered in one behaviour of Spec
MaxMsgs == 1
\* EventSource objects / 'tx' messages in one behaviour of SpecFlood
MaxFloodHandles == 2
MaxFlood == 202
\* distinct transaction ids the backend sends in Spec
NumTxids == 1
\* longest alert list given to getMaxSeverity
MaxAlerts == 4
\* API calls issued in one behaviour of SpecViews
MaxCalls == 2
\* EventSource objects / 'tx' messages in one behaviour of SpecStream
MaxStreamHandles == 2
MaxStreamMsgs == 3
\* EventSource objects, 'tx' messages and API calls in one behaviour of SpecApp
MaxAppHandles == 1
MaxAppMsgs == 1
MaxAppCalls == 2
\* longest alert list of a scan response / scans in one behaviour of SpecScanner
MaxScanAlerts == 2
MaxScans == 2
\* longest transaction list of a block response / calls in one behaviour of SpecBlock
MaxBlockTxs == 2
MaxBlockCalls == 2
\* API calls issued in one behaviour of SpecPage
MaxPageCalls == 2
\* calls made one after the other in one behaviour of SpecFetch
MaxFetchCalls == 2

\* const DEFAULT_TIMEOUT_MS = 120_000
DEFAULT_TIMEOUT_MS == 120000

Null == "null"

\* type AlertSeverity = 'critical' | 'warning' | 'informational'
AlertSeverity == {"critical", "warning", "informational"}

\* type ConnectionStatus = 'disconnected' | 'connected' | 'error'
ConnectionStatus == {"disconnected", "connected", "error"}

\* EventSource.readyState: CONNECTING (0), OPEN (1), CLOSED (2)
ReadyState == {"CONNECTING", "OPEN", "CLOSED"}

\* values of the min-severity select
MinSeverityOptions == {"info", "warning", "critical"}

\* texts typed into the interval input
IntervalTexts == {<<"1", "0">>, <<"5">>, <<"0">>, <<>>}

VARIABLES
    \* ---- MempoolMonitor component state ----
    intervalSecs,     \* useState('10')
    minSeverity,      \* useState('info')
    status,           \* useState<ConnectionStatus>('disconnected')
    events,           \* useState<MonitorEventDisplay[]>([])
    eventSourceRef,   \* useRef<EventSource | null>(null): 0 is null, else an index of es
    es,               \* every EventSource created so far, in creation order
    mounted,          \* the component is mounted
    now,              \* Date.now(): advances with every delivered 'tx' message
    accepted,         \* history: events put into the buffer since it was last emptied
    uncaught,         \* an exception escaped a handler into the hosting view
    \* ---- getMaxSeverity, as a function applied to an input ----
    sevAlerts,        \* the alerts argument
    sevResult,        \* the value returned, "none" before the call
    \* ---- request/response views ----
    loading,          \* [view -> BOOLEAN]
    error,            \* [view -> message or Null]
    data,             \* [view -> response or Null]
    pending,          \* API calls issued and not yet settled
    calls,            \* number of API calls issued so far
    \* ---- one request/response call of the API client, step by step ----
    fj,               \* the call in progress: phase, timer, response, outcome
    \* ---- the URL builders, as functions applied to an input ----
    url,              \* the builder, its options, and the URL built
    \* ---- page and view state next to loading / error / data ----
    selectedTxid,     \* Index: useState<string | undefined>(), <<>> is undefined
    filter,           \* BlockExplorer: useState('timelocks')
    expandedTxs,      \* BlockExplorer (part_002): useState<Set<string>>(new Set())
    severityFilter,   \* SecurityScanner: useState('all')
    detectionFilter   \* SecurityScanner: useState('all')

monitorVars == <<intervalSecs, minSeverity, status, events, eventSourceRef, es,
                 mounted, now, accepted, uncaught>>
sevVars == <<sevAlerts, sevResult>>
viewVars == <<loading, error, data, pending, calls>>
fetchVars == <<fj>>
urlVars == <<url>>
pageVars == <<selectedTxid, filter, expandedTxs>>
scanFilterVars == <<severityFilter, detectionFilter>>
vars == <<intervalSecs, minSeverity, status, events, eventSourceRef, es,
          mounted, now, accepted, uncaught, sevAlerts, sevResult,
          loading, error, data, pending, calls, fj, url,
          selectedTxid, filter, expandedTxs, severityFilter, detectionFilter>>

(***************************************************************************)
(* Text helpers: strings are sequences of one-character strings            *)
(***************************************************************************)

DigitVal == [c \in {"0", "1", "2", "3", "4", "5", "6", "7", "8", "9"} |->
               CASE c = "0" -> 0 [] c = "1" -> 1 [] c = "2" -> 2 [] c = "3" -> 3
                 [] c = "4" -> 4 [] c = "5" -> 5 [] c = "6" -> 6 [] c = "7" -> 7
                 [] c = "8" -> 8 [] c = "9" -> 9]

IsDigit(c) == c \in DOMAIN DigitVal

RECURSIVE SkipLeadingWs(_)
SkipLeadingWs(s) ==
    IF s # <<>> /\ Head(s) = " " THEN SkipLeadingWs(Tail(s)) ELSE s

RECURSIVE DigitsValue(_, _)
DigitsValue(s, acc) ==
    IF s # <<>> /\ IsDigit(Head(s))
    THEN DigitsValue(Tail(s), acc * 10 + DigitVal[Head(s)])
    ELSE acc

\* parseInt(text, 10): leading white space is skipped, an optional sign is read,
\* then the longest run of digits; NaN when there is no digit to read
ParseInt(s) ==
    LET t == SkipLeadingWs(s)
        signed == t # <<>> /\ Head(t) \in {"-", "+"}
        neg == t # <<>> /\ Head(t) = "-"
        u == IF signed THEN Tail(t) ELSE t
    IN IF u = <<>> \/ ~IsDigit(Head(u))
       THEN [nan |-> TRUE, val |-> 0]
       ELSE [nan |-> FALSE, val |-> (IF neg THEN -1 ELSE 1) * DigitsValue(u, 0)]

\* JavaScript truthiness of a number: NaN and 0 are falsy
Falsy(n) == n.nan \/ n.val = 0

\* n || dflt
OrDefault(n, dflt) == IF Falsy(n) THEN dflt ELSE n.val

\* variant: the list is returned whole
Slice0_NoTruncate(s, n) == s

\* variant: slice(-n), which keeps the last n entries
Slice0_KeepLast(s, n) ==
    IF Len(s) <= n THEN s ELSE SubSeq(s, Len(s) - n + 1, Len(s))

\* Array.prototype.slice(0, n)
Slice0(s, n) == SubSeq(s, 1, IF Len(s) < n THEN Len(s) ELSE n)

(***************************************************************************)
(* API client: the subscription call                                       *)
(***************************************************************************)

\* URLSearchParams: a parameter is present exactly when it was set
SetParam(params, key, value) == (key :> value) @@ params

NoParams == [k \in {} |-> Null]

\* api.createMonitorStream(options): new EventSource(url), which starts CONNECTING
createMonitorStream(options) ==
    LET p1 == IF "interval" \in DOMAIN options
              THEN SetParam(NoParams, "interval", ToString(options.interval)) ELSE NoParams
        p2 == IF "min_severity" \in DOMAIN options /\ options.min_severity # ""
              THEN SetParam(p1, "min_severity", options.min_severity) ELSE p1
    IN [readyState |-> "CONNECTING", path |-> "/api/monitor", query |-> p2]

\* EventSource.close(): readyState becomes CLOSED and no further event is dispatched
Close(handles, h) ==
    IF h = 0 THEN handles ELSE [handles EXCEPT ![h].readyState = "CLOSED"]

(***************************************************************************)
(* Stream messages                                                         *)
(***************************************************************************)

\* e.data of a 'tx' message: text that is JSON for `value`, or text that is not JSON
ValidPayloads ==
    [txid : 1..NumTxids,
     alerts : {<<[severity |-> "warning"], [severity |-> "informational"]>>}]

\* JSON that is not a MonitorEvent (no txid, no alerts)
OtherJson == [ping |-> TRUE]

TxData ==
    {[json |-> TRUE, value |-> v] : v \in ValidPayloads}
      \cup {[json |-> TRUE, value |-> OtherJson], [json |-> FALSE]}

\* JSON.parse(text): throws a SyntaxError on text that is not JSON
JSONparse(d) ==
    IF d.json THEN [threw |-> FALSE, value |-> d.value] ELSE [threw |-> TRUE]

\* try { ... JSON.parse(e.data) ... } catch (err) { console.error(...) }
CatchesParseError == TRUE

\* interface MonitorEvent { txid; timelock; lightning; alerts }
IsMonitorEvent(e) == {"txid", "alerts"} \subseteq DOMAIN e

(***************************************************************************)
(* MempoolMonitor                                                          *)
(***************************************************************************)

MonitorInit ==
    /\ intervalSecs = <<"1", "0">>
    /\ minSeverity = "info"
    /\ status = "disconnected"
    /\ events = <<>>
    /\ eventSourceRef = 0
    /\ es = <<>>
    /\ mounted = TRUE
    /\ now = 0
    /\ accepted = 0
    /\ uncaught = FALSE

\* onChange of the interval input: setIntervalSecs(e.target.value)
setIntervalSecs(text) ==
    /\ mounted
    /\ intervalSecs' = text
    /\ UNCHANGED <<minSeverity, status, events, eventSourceRef, es, mounted, now, accepted, uncaught>>

\* onChange of the min-severity select: setMinSeverity(e.target.value)
setMinSeverity(v) ==
    /\ mounted
    /\ minSeverity' = v
    /\ UNCHANGED <<intervalSecs, status, events, eventSourceRef, es, mounted, now, accepted, uncaught>>

\* variant: the referenced handle is not closed before the new one is opened
handleStart_NoClose ==
    /\ mounted
    /\ LET intervalNum == OrDefault(ParseInt(intervalSecs), 10)
           newEs == createMonitorStream([interval |-> intervalNum,
                                         min_severity |-> minSeverity])
       IN /\ es' = Append(es, newEs)
          /\ eventSourceRef' = Len(es) + 1
    /\ UNCHANGED <<intervalSecs, minSeverity, status, events, mounted, now, accepted, uncaught>>

\* variant: the start request itself reports the connection as established
handleStart_SetsConnected ==
    /\ mounted
    /\ LET closed == Close(es, eventSourceRef)
           intervalNum == OrDefault(ParseInt(intervalSecs), 10)
           newEs == createMonitorStream([interval |-> intervalNum,
                                         min_severity |-> minSeverity])
       IN /\ es' = Append(closed, newEs)
          /\ eventSourceRef' = Len(es) + 1
    /\ status' = "connected"
    /\ UNCHANGED <<intervalSecs, minSeverity, events, mounted, now, accepted, uncaught>>

\* handleStart: close the referenced handle, open a new one, register the listeners
handleStart ==
    /\ mounted
    /\ LET closed == Close(es, eventSourceRef)
           intervalNum == OrDefault(ParseInt(intervalSecs), 10)
           newEs == createMonitorStream([interval |-> intervalNum,
                                         min_severity |-> minSeverity])
       IN /\ es' = Append(closed, newEs)
          /\ eventSourceRef' = Len(es) + 1
    /\ UNCHANGED <<intervalSecs, minSeverity, status, events, mounted, now, accepted, uncaught>>

\* variant: a ready signal is ignored while the status is 'error'
onopen_NotFromError(h) ==
    /\ h \in 1..Len(es)
    /\ es[h].readyState = "CONNECTING"
    /\ es' = [es EXCEPT ![h].readyState = "OPEN"]
    /\ status' = IF mounted /\ status # "error" THEN "connected" ELSE status
    /\ UNCHANGED <<intervalSecs, minSeverity, events, eventSourceRef, mounted, now, accepted, uncaught>>

\* es.onopen = () => setStatus('connected'), fired when the connection is ready
onopen(h) ==
    /\ h \in 1..Len(es)
    /\ es[h].readyState = "CONNECTING"
    /\ es' = [es EXCEPT ![h].readyState = "OPEN"]
    /\ status' = IF mounted THEN "connected" ELSE status
    /\ UNCHANGED <<intervalSecs, minSeverity, events, eventSourceRef, mounted, now, accepted, uncaught>>

\* variant: an event replaces the buffered events that carry its txid
onTx_Dedup(h, d) ==
    /\ h \in 1..Len(es)
    /\ es[h].readyState = "OPEN"
    /\ now' = now + 1
    /\ LET r == JSONparse(d)
       IN IF r.threw
          THEN /\ events' = events
               /\ accepted' = accepted
               /\ uncaught' = (uncaught \/ ~CatchesParseError)
          ELSE LET displayEvent == [receivedAt |-> now'] @@ r.value
                   Other(e) == ~("txid" \in DOMAIN e /\ "txid" \in DOMAIN r.value
                                  /\ e.txid = r.value.txid)
               IN /\ events' = IF mounted
                               THEN Slice0(<<displayEvent>> \o SelectSeq(events, Other),
                                           MAX_EVENTS)
                               ELSE events
                  /\ accepted' = IF mounted THEN accepted + 1 ELSE accepted
                  /\ uncaught' = uncaught
    /\ UNCHANGED <<intervalSecs, minSeverity, status, eventSourceRef, es, mounted>>

\* es.addEventListener('tx', ...): parse, stamp, prepend, truncate; a parse
\* failure is caught and logged
onTx(h, d) ==
    /\ h \in 1..Len(es)
    /\ es[h].readyState = "OPEN"
    /\ now' = now + 1
    /\ LET r == JSONparse(d)
       IN IF r.threw
          THEN /\ events' = events
               /\ accepted' = accepted
               /\ uncaught' = (uncaught \/ ~CatchesParseError)
          ELSE LET displayEvent == [receivedAt |-> now'] @@ r.value
               IN /\ events' = IF mounted
                               THEN Slice0(<<displayEvent>> \o events, MAX_EVENTS)
                               ELSE events
                  /\ accepted' = IF mounted THEN accepted + 1 ELSE accepted
                  /\ uncaught' = uncaught
    /\ UNCHANGED <<intervalSecs, minSeverity, status, eventSourceRef, es, mounted>>

\* variant: the failed handle is left to reconnect by itself
onerror_NoClose(h) ==
    /\ h \in 1..Len(es)
    /\ es[h].readyState \in {"CONNECTING", "OPEN"}
    /\ status' = IF mounted THEN "error" ELSE status
    /\ es' = [es EXCEPT ![h].readyState = "CONNECTING"]
    /\ UNCHANGED <<intervalSecs, minSeverity, events, eventSourceRef, mounted, now, accepted, uncaught>>

\* es.onerror = () => { setStatus('error'); es.close(); }
onerror(h) ==
    /\ h \in 1..Len(es)
    /\ es[h].readyState \in {"CONNECTING", "OPEN"}
    /\ status' = IF mounted THEN "error" ELSE status
    /\ es' = Close(es, h)
    /\ UNCHANGED <<intervalSecs, minSeverity, events, eventSourceRef, mounted, now, accepted, uncaught>>

\* variant: stopping also empties the feed
handleStop_DropsEvents ==
    /\ mounted
    /\ es' = Close(es, eventSourceRef)
    /\ eventSourceRef' = 0
    /\ status' = "disconnected"
    /\ events' = <<>>
    /\ UNCHANGED <<intervalSecs, minSeverity, mounted, now, accepted, uncaught>>

\* variant: the reference is dropped without closing the handle
handleStop_NoClose ==
    /\ mounted
    /\ es' = es
    /\ eventSourceRef' = 0
    /\ status' = "disconnected"
    /\ UNCHANGED <<intervalSecs, minSeverity, events, mounted, now, accepted, uncaught>>

\* handleStop
handleStop ==
    /\ mounted
    /\ es' = Close(es, eventSourceRef)
    /\ eventSourceRef' = 0
    /\ status' = "disconnected"
    /\ UNCHANGED <<intervalSecs, minSeverity, events, mounted, now, accepted, uncaught>>

\* variant: clearing also stops the feed
handleClear_Stops ==
    /\ mounted
    /\ events' = <<>>
    /\ accepted' = 0
    /\ es' = Close(es, eventSourceRef)
    /\ eventSourceRef' = 0
    /\ status' = "disconnected"
    /\ UNCHANGED <<intervalSecs, minSeverity, mounted, now, uncaught>>

\* handleClear / onClick={() => setEvents([])}
handleClear ==
    /\ mounted
    /\ events' = <<>>
    /\ accepted' = 0
    /\ UNCHANGED <<intervalSecs, minSeverity, status, eventSourceRef, es, mounted, now, uncaught>>

\* variant: no cleanup is registered
Unmount_NoCleanup ==
    /\ mounted
    /\ mounted' = FALSE
    /\ UNCHANGED <<intervalSecs, minSeverity, status, events, eventSourceRef, es, now,
                   accepted, uncaught>>

\* useEffect cleanup on unmount: eventSourceRef.current?.close()
Unmount ==
    /\ mounted
    /\ mounted' = FALSE
    /\ es' = Close(es, eventSourceRef)
    /\ UNCHANGED <<intervalSecs, minSeverity, status, events, eventSourceRef, now,
                   accepted, uncaught>>

(***************************************************************************)
(* getMaxSeverity                                                          *)
(***************************************************************************)

\* variant: the test for warning comes before the test for critical
getMaxSeverity_WarningFirst(alerts) ==
    IF Len(alerts) = 0 THEN Null
    ELSE IF \E i \in 1..Len(alerts) : alerts[i].severity = "warning" THEN "warning"
    ELSE IF \E i \in 1..Len(alerts) : alerts[i].severity = "critical" THEN "critical"
    ELSE "informational"

\* function getMaxSeverity(alerts): AlertSeverity | null
getMaxSeverity(alerts) ==
    IF Len(alerts) = 0 THEN Null
    ELSE IF \E i \in 1..Len(alerts) : alerts[i].severity = "critical" THEN "critical"
    ELSE IF \E i \in 1..Len(alerts) : alerts[i].severity = "warning" THEN "warning"
    ELSE "informational"

\* no call of getMaxSeverity under observation
SevIdle ==
    /\ sevAlerts = <<>>
    /\ sevResult = "none"

RECURSIVE SeqsUpTo(_, _)
SeqsUpTo(S, n) ==
    IF n = 0 THEN {<<>>}
    ELSE LET shorter == SeqsUpTo(S, n - 1)
         IN shorter \cup {Append(q, x) : q \in shorter, x \in S}

\* the alert lists getMaxSeverity is applied to
AlertLists == SeqsUpTo([severity : AlertSeverity], MaxAlerts)

CallGetMaxSeverity ==
    /\ sevResult = "none"
    /\ sevResult' = getMaxSeverity(sevAlerts)
    /\ UNCHANGED <<sevAlerts, monitorVars, viewVars, fetchVars, urlVars, pageVars, scanFilterVars>>

(***************************************************************************)
(* API client: request/response calls                                      *)
(***************************************************************************)

\* api.getTransaction(txid): GET /api/tx/:txid
getTransaction(txid) ==
    [fn |-> "getTransaction", path |-> <<"/api/tx", txid>>, query |-> NoParams]

\* variant: offset is tested for truthiness, like filter
getBlock_TruthyOffset(height, options) ==
    LET p1 == IF "filter" \in DOMAIN options /\ options.filter # ""
              THEN SetParam(NoParams, "filter", options.filter) ELSE NoParams
        p2 == IF "offset" \in DOMAIN options /\ options.offset # 0
              THEN SetParam(p1, "offset", ToString(options.offset)) ELSE p1
        p3 == IF "limit" \in DOMAIN options
              THEN SetParam(p2, "limit", ToString(options.limit)) ELSE p2
    IN [fn |-> "getBlock", path |-> <<"/api/block", ToString(height)>>, query |-> p3]

\* api.getBlock(height, options): GET /api/block/:height?filter=&offset=&limit=
getBlock(height, options) ==
    LET p1 == IF "filter" \in DOMAIN options /\ options.filter # ""
              THEN SetParam(NoParams, "filter", options.filter) ELSE NoParams
        p2 == IF "offset" \in DOMAIN options
              THEN SetParam(p1, "offset", ToString(options.offset)) ELSE p1
        p3 == IF "limit" \in DOMAIN options
              THEN SetParam(p2, "limit", ToString(options.limit)) ELSE p2
    IN [fn |-> "getBlock", path |-> <<"/api/block", ToString(height)>>, query |-> p3]

\* String(n) of a parsed number
NumString(n) == IF n.nan THEN "NaN" ELSE ToString(n.val)

\* api.scan(options): GET /api/scan?start=&end=&severity=&detection_type=
scan(options) ==
    LET p1 == SetParam(NoParams, "start", ToString(options.start))
        p2 == IF "end" \in DOMAIN options
              THEN SetParam(p1, "end", NumString(options.end)) ELSE p1
        p3 == IF "severity" \in DOMAIN options /\ options.severity # ""
              THEN SetParam(p2, "severity", options.severity) ELSE p2
        p4 == IF "detection_type" \in DOMAIN options /\ options.detection_type # ""
              THEN SetParam(p3, "detection_type", options.detection_type) ELSE p3
    IN [fn |-> "scan", path |-> <<"/api/scan">>, query |-> p4]

\* api.lightning(options): GET /api/lightning?start=&end=
lightning(options) ==
    LET p1 == SetParam(NoParams, "start", ToString(options.start))
        p2 == IF "end" \in DOMAIN options
              THEN SetParam(p1, "end", NumString(options.end)) ELSE p1
    IN [fn |-> "lightning", path |-> <<"/api/lightning">>, query |-> p2]

\* what the network does with one request
Outcomes ==
    {[kind |-> "ok"], [kind |-> "badjson"], [kind |-> "network"], [kind |-> "timeout"]}
      \cup [kind : {"http"}, status : {404, 500}, statusText : {"Error"},
            bodyReadable : BOOLEAN, body : {"", "not found"}]

\* fetchJson: the value returned, or the error thrown
fetchJson(call, o) ==
    CASE o.kind = "timeout" ->
           [ok |-> FALSE, class |-> "DOMException", name |-> "AbortError",
            message |-> "The operation was aborted."]
      [] o.kind = "network" ->
           [ok |-> FALSE, class |-> "TypeError", name |-> "TypeError",
            message |-> "Failed to fetch"]
      [] o.kind = "http" ->
           LET text == IF o.bodyReadable THEN o.body ELSE ""
           IN [ok |-> FALSE, class |-> "ApiError", name |-> "ApiError",
               message |-> IF text # "" THEN text
                           ELSE "HTTP " \o ToString(o.status) \o ": " \o o.statusText,
               status |-> o.status, response |-> text]
      [] o.kind = "badjson" ->
           [ok |-> FALSE, class |-> "SyntaxError", name |-> "SyntaxError",
            message |-> "Unexpected token in JSON"]
      [] o.kind = "ok" ->
           [ok |-> TRUE,
            value |-> IF "body" \in DOMAIN o
                      THEN [call |-> call.id, fn |-> call.request.fn, body |-> o.body]
                      ELSE [call |-> call.id, fn |-> call.request.fn]]

(***************************************************************************)
(* API client: the URL builders applied to their options                   *)
(***************************************************************************)

\* an optional property of an options object: left out, or set to a value of V
Optional(key, V) == {NoParams} \cup {key :> v : v \in V}

\* options of getBlock, scan, lightning and createMonitorStream, by declared type
DetectionType ==
    {"timelock_mixing", "short_cltv_delta", "htlc_clustering", "anomalous_sequence"}
EndValues == {ParseInt(<<"9">>), ParseInt(<<"x">>)}
BlockOptions ==
    {f @@ o @@ l : f \in Optional("filter", {"timelocks", "alerts", "all"}),
                   o \in Optional("offset", {0, 50}),
                   l \in Optional("limit", {100})}
ScanOptions ==
    {("start" :> 7) @@ e @@ v @@ d : e \in Optional("end", EndValues),
                                     v \in Optional("severity", AlertSeverity),
                                     d \in Optional("detection_type", DetectionType)}
LightningOptions == {("start" :> 7) @@ e : e \in Optional("end", EndValues)}
MonitorOptions ==
    {i @@ v : i \in Optional("interval", {0, 10}),
              v \in Optional("min_severity", MinSeverityOptions)}

\* `${query ? `?${query}` : ''}`: what follows the path when the '?' is conditional
Search(query) == IF query = NoParams THEN <<>> ELSE <<"?", query>>

\* `?${params.toString()}`: what follows the path of scan and lightning
SearchAlways(query) == <<"?", query>>

\* no URL built
NoUrl == [path |-> <<>>, search |-> <<>>]

\* no URL builder under observation
UrlIdle == url = [fn |-> "none", options |-> NoParams, built |-> FALSE, result |-> NoUrl]

\* the builders are called on every options object
UrlInputs ==
    [fn : {"getBlock"}, options : BlockOptions, built : {FALSE}, result : {NoUrl}]
      \cup [fn : {"scan"}, options : ScanOptions, built : {FALSE}, result : {NoUrl}]
      \cup [fn : {"lightning"}, options : LightningOptions, built : {FALSE}, result : {NoUrl}]
      \cup [fn : {"createMonitorStream"}, options : MonitorOptions,
            built : {FALSE}, result : {NoUrl}]

\* the URL of api.getBlock(7, options)
CallGetBlock ==
    /\ url.fn = "getBlock" /\ ~url.built
    /\ LET q == getBlock(7, url.options)
       IN url' = [url EXCEPT !.built = TRUE,
                             !.result = [path |-> q.path, search |-> Search(q.query)]]
    /\ UNCHANGED <<monitorVars, sevVars, viewVars, fetchVars, pageVars, scanFilterVars>>

\* the URL of api.scan(options)
CallScan ==
    /\ url.fn = "scan" /\ ~url.built
    /\ LET q == scan(url.options)
       IN url' = [url EXCEPT !.built = TRUE,
                             !.result = [path |-> q.path, search |-> SearchAlways(q.query)]]
    /\ UNCHANGED <<monitorVars, sevVars, viewVars, fetchVars, pageVars, scanFilterVars>>

\* the URL of api.lightning(options)
CallLightning ==
    /\ url.fn = "lightning" /\ ~url.built
    /\ LET q == lightning(url.options)
       IN url' = [url EXCEPT !.built = TRUE,
                             !.result = [path |-> q.path, search |-> SearchAlways(q.query)]]
    /\ UNCHANGED <<monitorVars, sevVars, viewVars, fetchVars, pageVars, scanFilterVars>>

\* the URL of api.createMonitorStream(options)
CallCreateMonitorStream ==
    /\ url.fn = "createMonitorStream" /\ ~url.built
    /\ LET q == createMonitorStream(url.options)
       IN url' = [url EXCEPT !.built = TRUE,
                             !.result = [path |-> <<q.path>>, search |-> Search(q.query)]]
    /\ UNCHANGED <<monitorVars, sevVars, viewVars, fetchVars, pageVars, scanFilterVars>>

(***************************************************************************)
(* API client: one request/response call, step by step.  Each action is    *)
(* the code that runs between two awaits of fetchJson (lib/api.ts) or of   *)
(* get (api/client.ts); a server that stalls simply takes no step.         *)
(***************************************************************************)

\* the two request/response helpers of the repository
Clients == {"fetchJson", "get"}

\* the requests the calls under observation carry
FetchRequests ==
    {getTransaction(<<"a">>), getBlock(7, [limit |-> 100]),
     scan([start |-> 7]), lightning([start |-> 7])}

\* no response received yet
NoResponse ==
    [ok |-> FALSE, status |-> 0, statusText |-> "", bodyReadable |-> FALSE, body |-> ""]

\* what a server answers: status line, and the body it goes on to send
\* (bodyReadable is FALSE when the connection breaks while the body is read)
Responses ==
    [ok : {TRUE}, status : {200}, statusText : {"OK"},
     bodyReadable : BOOLEAN, body : {"{}", "<html>"}]
      \cup [ok : {FALSE}, status : {404, 500}, statusText : {"Error"},
            bodyReadable : BOOLEAN, body : {"", "not found"}]

\* neither returned nor thrown yet
NoOutcome == [ok |-> FALSE, class |-> "none", name |-> "none", message |-> ""]

\* the errors a call can end with
AbortError ==
    [ok |-> FALSE, class |-> "DOMException", name |-> "AbortError",
     message |-> "The operation was aborted."]
NetworkError ==
    [ok |-> FALSE, class |-> "TypeError", name |-> "TypeError",
     message |-> "Failed to fetch"]
JsonSyntaxError ==
    [ok |-> FALSE, class |-> "SyntaxError", name |-> "SyntaxError",
     message |-> "Unexpected token in JSON"]

\* `HTTP ${response.status}: ${response.statusText}`
StatusLine(r) == "HTTP " \o ToString(r.status) \o ": " \o r.statusText

\* variant: the message is the body text, with no fallback to the status line
ApiError_NoFallback(r, text) ==
    [ok |-> FALSE, class |-> "ApiError", name |-> "ApiError",
     message |-> text, status |-> r.status, response |-> text]

\* new ApiError(text || `HTTP ...`, response.status, text)
ApiError(r, text) ==
    [ok |-> FALSE, class |-> "ApiError", name |-> "ApiError",
     message |-> IF text # "" THEN text ELSE StatusLine(r),
     status |-> r.status, response |-> text]

\* new Error(`${res.status}: ${text}`)
PlainError(r, text) ==
    [ok |-> FALSE, class |-> "Error", name |-> "Error",
     message |-> ToString(r.status) \o ": " \o text]

\* JSON.parse accepts the body
ValidJson(body) == body = "{}"

FetchIdle ==
    fj = [client |-> "none", request |-> getTransaction(<<>>), phase |-> "idle",
          timer |-> "none", elapsedMs |-> 0, response |-> NoResponse,
          outcome |-> NoOutcome, calls |-> 0, requests |-> 0]

\* the call is made: the timer is armed (fetchJson only) and fetch() is issued
FjBegin(client, request) ==
    /\ fj.phase \in {"idle", "returned", "thrown"}
    /\ fj' = [client |-> client, request |-> request, phase |-> "fetch",
              timer |-> IF client = "fetchJson" THEN "armed" ELSE "none",
              elapsedMs |-> 0, response |-> NoResponse, outcome |-> NoOutcome,
              calls |-> fj.calls + 1, requests |-> fj.requests + 1]
    /\ UNCHANGED <<monitorVars, sevVars, viewVars, urlVars, pageVars, scanFilterVars>>

\* fetch() resolves with the response head: clearTimeout, then the body is awaited
FjResponse(r) ==
    /\ fj.phase = "fetch"
    /\ fj' = [fj EXCEPT !.response = r,
                        !.timer = IF @ = "armed" THEN "cleared" ELSE @,
                        !.phase = IF r.ok THEN "json" ELSE "text"]
    /\ UNCHANGED <<monitorVars, sevVars, viewVars, urlVars, pageVars, scanFilterVars>>

\* variant: a failed fetch() is attempted once more before the error is thrown
FjNetworkError_Retry ==
    /\ fj.phase = "fetch"
    /\ fj' = IF fj.requests = fj.calls
             THEN [fj EXCEPT !.requests = @ + 1]
             ELSE [fj EXCEPT !.phase = "thrown", !.outcome = NetworkError]
    /\ UNCHANGED <<monitorVars, sevVars, viewVars, urlVars, pageVars, scanFilterVars>>

\* fetch() rejects (no connection, DNS, CORS): the TypeError leaves the call as
\* it is; clearTimeout is not reached
FjNetworkError ==
    /\ fj.phase = "fetch"
    /\ fj' = [fj EXCEPT !.phase = "thrown", !.outcome = NetworkError]
    /\ UNCHANGED <<monitorVars, sevVars, viewVars, urlVars, pageVars, scanFilterVars>>

\* the body of a non-success response has been read, or reading it failed:
\*   fetchJson: text = await response.text().catch(() => ''); throw new ApiError(...)
\*   get:       text = await res.text().catch(() => res.statusText); throw new Error(...)
FjText ==
    /\ fj.phase = "text"
    /\ LET r == fj.response
           text == IF r.bodyReadable THEN r.body
                   ELSE IF fj.client = "fetchJson" THEN "" ELSE r.statusText
       IN fj' = [fj EXCEPT !.phase = "thrown",
                           !.outcome = IF fj.client = "fetchJson"
                                       THEN ApiError(r, text) ELSE PlainError(r, text)]
    /\ UNCHANGED <<monitorVars, sevVars, viewVars, urlVars, pageVars, scanFilterVars>>

\* response.json() settles: the parsed data is returned, or its rejection is thrown
FjJson ==
    /\ fj.phase = "json"
    /\ LET r == fj.response
       IN fj' = IF ~r.bodyReadable
                THEN [fj EXCEPT !.phase = "thrown", !.outcome = NetworkError]
                ELSE IF ~ValidJson(r.body)
                THEN [fj EXCEPT !.phase = "thrown", !.outcome = JsonSyntaxError]
                ELSE [fj EXCEPT !.phase = "returned",
                                !.outcome = [ok |-> TRUE, value |-> r.body]]
    /\ UNCHANGED <<monitorVars, sevVars, viewVars, urlVars, pageVars, scanFilterVars>>

\* timeoutMs pass since the call was made: a timer that is still armed runs
\* controller.abort(), which rejects a fetch() that is still awaited
TimePasses ==
    /\ fj.phase # "idle"
    /\ fj.elapsedMs < DEFAULT_TIMEOUT_MS
    /\ fj' = IF fj.timer = "armed"
             THEN [fj EXCEPT !.elapsedMs = DEFAULT_TIMEOUT_MS,
                             !.timer = "fired",
                             !.phase = IF @ = "fetch" THEN "thrown" ELSE @,
                             !.outcome = IF fj.phase = "fetch" THEN AbortError ELSE @]
             ELSE [fj EXCEPT !.elapsedMs = DEFAULT_TIMEOUT_MS]
    /\ UNCHANGED <<monitorVars, sevVars, viewVars, urlVars, pageVars, scanFilterVars>>


(***************************************************************************)
(* Request/response views                                                  *)
(***************************************************************************)

Views == {"transaction", "block", "scan", "lightning"}

\* useState<...Response | null>(null): the null result
NoData == [call |-> 0, fn |-> "null"]

\* texts submitted in the height / start inputs, the end and limit inputs, the txid input
HeightTexts == {<<"7">>, <<"7", "x">>, <<"0">>, <<"-", "7">>, <<"x">>, <<>>}
EndTexts == {<<>>, <<"9">>}
LimitTexts == {<<"1", "0", "0">>, <<"5">>, <<>>}
TxidTexts == {<<"a">>, <<" ", "a">>, <<"b">>, <<" ">>, <<>>}

RECURSIVE TrimEnd(_)
TrimEnd(s) ==
    IF s # <<>> /\ s[Len(s)] = " " THEN TrimEnd(SubSeq(s, 1, Len(s) - 1)) ELSE s

\* String.prototype.trim()
Trim(s) == TrimEnd(SkipLeadingWs(s))

\* the page as first rendered: nothing selected, the filters at their defaults
PageInit ==
    /\ selectedTxid = <<>>
    /\ filter = "timelocks"
    /\ expandedTxs = {}
    /\ severityFilter = "all"
    /\ detectionFilter = "all"

ViewInit ==
    /\ loading = [v \in Views |-> FALSE]
    /\ error = [v \in Views |-> Null]
    /\ data = [v \in Views |-> NoData]
    /\ pending = {}
    /\ calls = 0

\* setLoading(true); setError(null); setData(null); then the API call is issued
BeginRequest(v, request) ==
    /\ loading' = [loading EXCEPT ![v] = TRUE]
    /\ error' = [error EXCEPT ![v] = Null]
    /\ data' = [data EXCEPT ![v] = NoData]
    /\ calls' = calls + 1
    /\ pending' = pending \cup {[id |-> calls + 1, view |-> v, request |-> request]}

\* TxAnalyzer: analyze(txid)
analyze(txid) ==
    IF Trim(txid) = <<>>
    THEN UNCHANGED viewVars
    ELSE BeginRequest("transaction", getTransaction(Trim(txid)))

\* variant: loading is set before the height is validated
handleScanBlock_LoadsFirst(height, limit) ==
    LET heightNum == ParseInt(height)
        limitNum == ParseInt(limit)
    IN IF Falsy(heightNum) \/ heightNum.val < 0
       THEN /\ loading' = [loading EXCEPT !["block"] = TRUE]
            /\ UNCHANGED <<error, data, pending, calls>>
       ELSE BeginRequest("block",
                getBlock(heightNum.val,
                         [filter |-> "all", offset |-> 0, limit |-> OrDefault(limitNum, 100)]))

\* BlockExplorer: handleScan
handleScanBlock(height, limit) ==
    LET heightNum == ParseInt(height)
        limitNum == ParseInt(limit)
    IN IF Falsy(heightNum) \/ heightNum.val < 0
       THEN UNCHANGED viewVars
       ELSE BeginRequest("block",
                getBlock(heightNum.val,
                         [filter |-> "all", offset |-> 0, limit |-> OrDefault(limitNum, 100)]))

\* the options { start, end } of scan and lightning: end is left out when the input is empty
RangeOptions(startNum, end) ==
    IF end = <<>> THEN [start |-> startNum.val]
    ELSE [start |-> startNum.val, end |-> ParseInt(end)]

\* SecurityScanner: handleScan
handleScan(start, end) ==
    LET startNum == ParseInt(start)
    IN IF Falsy(startNum) \/ startNum.val < 0
       THEN UNCHANGED <<viewVars, scanFilterVars>>
       ELSE /\ BeginRequest("scan", scan(RangeOptions(startNum, end)))
            /\ severityFilter' = "all"
            /\ detectionFilter' = "all"

\* LightningDashboard: handleAnalyze
handleAnalyze(start, end) ==
    LET startNum == ParseInt(start)
    IN IF Falsy(startNum) \/ startNum.val < 0
       THEN UNCHANGED viewVars
       ELSE BeginRequest("lightning", lightning(RangeOptions(startNum, end)))

\* the message a view stores for a thrown error
ErrorMessage(v, err) ==
    IF v = "block" /\ err.class # "ApiError" /\ err.name = "AbortError"
    THEN "Request timed out. Block scan can take 1-2 minutes. Try again or reduce the limit."
    ELSE err.message

\* variant: the views share one error state
Settle_SharedError(c, o) ==
    /\ c \in pending
    /\ LET r == fetchJson(c, o)
       IN IF r.ok
          THEN /\ data' = [data EXCEPT ![c.view] = r.value]
               /\ error' = error
          ELSE /\ error' = [v \in Views |-> ErrorMessage(c.view, r)]
               /\ data' = data
    /\ loading' = [loading EXCEPT ![c.view] = FALSE]
    /\ pending' = pending \ {c}
    /\ calls' = calls

\* variant: setLoading(false) follows setData in the try block, no finally
Settle_NoFinally(c, o) ==
    /\ c \in pending
    /\ LET r == fetchJson(c, o)
       IN IF r.ok
          THEN /\ data' = [data EXCEPT ![c.view] = r.value]
               /\ error' = error
               /\ loading' = [loading EXCEPT ![c.view] = FALSE]
          ELSE /\ error' = [error EXCEPT ![c.view] = ErrorMessage(c.view, r)]
               /\ data' = data
               /\ loading' = loading
    /\ pending' = pending \ {c}
    /\ calls' = calls

\* the awaited call settles: try { setData(result) } catch { setError(...) }
\* finally { setLoading(false) }
Settle(c, o) ==
    /\ c \in pending
    /\ LET r == fetchJson(c, o)
       IN IF r.ok
          THEN /\ data' = [data EXCEPT ![c.view] = r.value]
               /\ error' = error
          ELSE /\ error' = [error EXCEPT ![c.view] = ErrorMessage(c.view, r)]
               /\ data' = data
    /\ loading' = [loading EXCEPT ![c.view] = FALSE]
    /\ pending' = pending \ {c}
    /\ calls' = calls

(***************************************************************************)
(* SecurityScanner: the post-scan filters                                  *)
(***************************************************************************)

\* the alerts a scan response may list, by the two fields the filters read
ScanAlerts == [severity : AlertSeverity,
               detection_type : {"timelock_mixing", "short_cltv_delta"}]

\* responses to a scan: a body with its alerts, or no connection
ScanOutcomes ==
    {[kind |-> "ok", body |-> [alerts |-> a]] : a \in SeqsUpTo(ScanAlerts, MaxScanAlerts)}
      \cup {[kind |-> "network"]}

\* the chips of the two filter rows
SeverityChips == {"all"} \cup AlertSeverity
DetectionChips == {"all"} \cup DetectionType

\* the filter rows are rendered when data.alerts.length > 0
ChipsShown == data["scan"] # NoData /\ Len(data["scan"].body.alerts) > 0

\* FilterChip onClick={() => setSeverityFilter(s)}
setSeverityFilter(s) ==
    /\ ChipsShown
    /\ severityFilter' = s
    /\ UNCHANGED <<detectionFilter, viewVars>>

\* FilterChip onClick={() => setDetectionFilter(d)}
setDetectionFilter(d) ==
    /\ ChipsShown
    /\ detectionFilter' = d
    /\ UNCHANGED <<severityFilter, viewVars>>

\* variant: the detection-type filter is not applied
filtered_SeverityOnly ==
    IF data["scan"] = NoData THEN <<>>
    ELSE LET BySeverity(a) == a.severity = severityFilter
         IN IF severityFilter # "all"
            THEN SelectSeq(data["scan"].body.alerts, BySeverity)
            ELSE data["scan"].body.alerts

\* const filtered = useMemo(...): the alerts shown
filtered ==
    IF data["scan"] = NoData THEN <<>>
    ELSE LET BySeverity(a) == a.severity = severityFilter
             ByDetection(a) == a.detection_type = detectionFilter
             result1 == IF severityFilter # "all"
                        THEN SelectSeq(data["scan"].body.alerts, BySeverity)
                        ELSE data["scan"].body.alerts
         IN IF detectionFilter # "all" THEN SelectSeq(result1, ByDetection) ELSE result1

(***************************************************************************)
(* The page: header search, and the forms as the rendered controls allow   *)
(* them to be submitted                                                    *)
(***************************************************************************)

\* a transaction id as typed or pasted: 64 characters
Txid64(c) == [i \in 1..64 |-> c]

\* texts submitted in the header search box
HeaderTexts == {Txid64("a"), Txid64("b"), <<"a">>, <<>>}

\* Index: handleTxClick(txid), and the effect of TxAnalyzer that follows the new
\* initialTxid: prevInitialRef.current is the txid selected before
handleTxClick(txid) ==
    /\ selectedTxid' = txid
    /\ IF txid # <<>> /\ txid # selectedTxid
       THEN analyze(txid)
       ELSE UNCHANGED viewVars
    /\ UNCHANGED <<filter, expandedTxs>>

\* Index: handleHeaderSearch with `text` in the search box
handleHeaderSearch(text) ==
    LET trimmed == Trim(text)
    IN IF Len(trimmed) >= 32
       THEN handleTxClick(trimmed)
       ELSE UNCHANGED <<viewVars, pageVars>>

\* TxAnalyzer: the form is submitted; its button is disabled={loading || !inputTxid.trim()}
SubmitTx(inputTxid) ==
    /\ ~(loading["transaction"] \/ Trim(inputTxid) = <<>>)
    /\ analyze(inputTxid)

\* BlockExplorer: the form is submitted; its button is disabled={loading || !height}
SubmitBlock(height, limit) ==
    /\ ~(loading["block"] \/ height = <<>>)
    /\ handleScanBlock(height, limit)

\* SecurityScanner: the form is submitted; its button is disabled={loading || !start}
SubmitScan(start, end) ==
    /\ ~(loading["scan"] \/ start = <<>>)
    /\ handleScan(start, end)

\* LightningDashboard: the form is submitted; its button is disabled={loading || !start}
SubmitLightning(start, end) ==
    /\ ~(loading["lightning"] \/ start = <<>>)
    /\ handleAnalyze(start, end)

(***************************************************************************)
(* BlockExplorer: the client-side filter and the transaction rows          *)
(***************************************************************************)

\* the txid of the i-th transaction of a block: txids within a block differ
RowTxid(i) == Txid64(<<"a", "b", "c", "d">>[i])

\* what the filter reads of a transaction: whether any timelock is reported,
\* and the alerts, which may be missing (t.alerts ?? [])
TxFeatures ==
    {[timelocks |-> b] @@ a :
        b \in BOOLEAN, a \in Optional("alerts", {<<>>, <<[severity |-> "critical"]>>})}

\* the transaction lists of n entries
BlockTransactions(n) ==
    {[i \in 1..n |-> [txid |-> RowTxid(i)] @@ f[i]] : f \in [1..n -> TxFeatures]}

\* responses to a block scan: a body with its transactions, or no connection
BlockOutcomes ==
    {[kind |-> "ok", body |-> [transactions |-> t]] :
        t \in UNION {BlockTransactions(n) : n \in 0..MaxBlockTxs}}
      \cup {[kind |-> "network"]}

\* FilterChip onClick={() => setFilter(f)}: the chips are part of the result panel
setFilter(f) ==
    /\ data["block"] # NoData
    /\ filter' = f
    /\ UNCHANGED <<selectedTxid, expandedTxs, viewVars>>

\* (t.alerts ?? []).length > 0
HasAlerts(t) == Len(IF "alerts" \in DOMAIN t THEN t.alerts ELSE <<>>) > 0

\* hasSummary || hasCltv || hasCsv || hasSeqs
HasTimelocks(t) == t.timelocks

\* variant: the alerts filter is not handled and falls through to all
filteredBlock_NoAlertsBranch ==
    IF data["block"] = NoData THEN <<>>
    ELSE IF filter = "timelocks"
         THEN SelectSeq(data["block"].body.transactions, HasTimelocks)
         ELSE data["block"].body.transactions

\* BlockExplorer: const filtered = useMemo(...): the rows shown
filteredBlock ==
    IF data["block"] = NoData THEN <<>>
    ELSE IF filter = "alerts"
         THEN SelectSeq(data["block"].body.transactions, HasAlerts)
         ELSE IF filter = "timelocks"
              THEN SelectSeq(data["block"].body.transactions, HasTimelocks)
              ELSE data["block"].body.transactions

\* tr data-testid="tx-row" onClick={() => onTxClick?.(tx.timelock.txid)}, with
\* onTxClick={handleTxClick} passed by the page
clickTxRow(tx) == handleTxClick(tx.txid)

\* the block explorer with collapsible rows: toggleTx
toggleTx(txid) ==
    /\ expandedTxs' = IF txid \in expandedTxs
                      THEN expandedTxs \ {txid}
                      ELSE expandedTxs \cup {txid}
    /\ UNCHANGED <<selectedTxid, filter, viewVars>>

\* the block explorer with collapsible rows: handleScan
handleScanCollapsible(height, limit) ==
    LET heightNum == ParseInt(height)
        limitNum == ParseInt(limit)
    IN IF Falsy(heightNum) \/ heightNum.val < 0
       THEN UNCHANGED <<viewVars, pageVars>>
       ELSE /\ BeginRequest("block",
                   getBlock(heightNum.val,
                            [filter |-> filter, offset |-> 0, limit |-> OrDefault(limitNum, 100)]))
            /\ expandedTxs' = {}
            /\ UNCHANGED <<selectedTxid, filter>>

(***************************************************************************)
(* MempoolMonitor: the controls as rendered                                *)
(***************************************************************************)

\* interval input, disabled={status === 'connected'}
ChangeInterval(text) == status # "connected" /\ setIntervalSecs(text)

\* min-severity select, disabled={status === 'connected'}
ChangeMinSeverity(v) == status # "connected" /\ setMinSeverity(v)

\* Start button, disabled={status === 'connected'}
ClickStart == status # "connected" /\ handleStart

\* Stop button, disabled={status === 'disconnected'}
ClickStop == status # "disconnected" /\ handleStop

(***************************************************************************)
(* Specification of the monitor: every handler may run in every state      *)
(***************************************************************************)

Init == MonitorInit /\ SevIdle /\ ViewInit /\ FetchIdle /\ UrlIdle /\ PageInit

Next ==
    \/ \E t \in IntervalTexts : setIntervalSecs(t) /\ UNCHANGED <<sevVars, viewVars, fetchVars, urlVars, pageVars, scanFilterVars>>
    \/ \E v \in MinSeverityOptions : setMinSeverity(v) /\ UNCHANGED <<sevVars, viewVars, fetchVars, urlVars, pageVars, scanFilterVars>>
    \/ Len(es) < MaxHandles /\ handleStart /\ UNCHANGED <<sevVars, viewVars, fetchVars, urlVars, pageVars, scanFilterVars>>
    \/ \E h \in 1..Len(es) : onopen(h) /\ UNCHANGED <<sevVars, viewVars, fetchVars, urlVars, pageVars, scanFilterVars>>
    \/ \E h \in 1..Len(es), d \in TxData :
          now < MaxMsgs /\ onTx(h, d) /\ UNCHANGED <<sevVars, viewVars, fetchVars, urlVars, pageVars, scanFilterVars>>
    \/ \E h \in 1..Len(es) : onerror(h) /\ UNCHANGED <<sevVars, viewVars, fetchVars, urlVars, pageVars, scanFilterVars>>
    \/ handleStop /\ UNCHANGED <<sevVars, viewVars, fetchVars, urlVars, pageVars, scanFilterVars>>
    \/ handleClear /\ UNCHANGED <<sevVars, viewVars, fetchVars, urlVars, pageVars, scanFilterVars>>
    \/ Unmount /\ UNCHANGED <<sevVars, viewVars, fetchVars, urlVars, pageVars, scanFilterVars>>

Spec == Init /\ [][Next]_vars

(***************************************************************************)
(* Specification of a long stream: the backend sends MaxFlood messages,    *)
(* each with its own txid                                                  *)
(***************************************************************************)

\* the n-th message of the stream
FloodData(n) == [json |-> TRUE, value |-> [txid |-> n, alerts |-> <<>>]]

NextFlood ==
    \/ Len(es) < MaxFloodHandles /\ handleStart /\ UNCHANGED <<sevVars, viewVars, fetchVars, urlVars, pageVars, scanFilterVars>>
    \/ \E h \in 1..Len(es) : onopen(h) /\ UNCHANGED <<sevVars, viewVars, fetchVars, urlVars, pageVars, scanFilterVars>>
    \/ \E h \in 1..Len(es) :
          now < MaxFlood /\ onTx(h, FloodData(now + 1)) /\ UNCHANGED <<sevVars, viewVars, fetchVars, urlVars, pageVars, scanFilterVars>>
    \/ \E h \in 1..Len(es) : onerror(h) /\ UNCHANGED <<sevVars, viewVars, fetchVars, urlVars, pageVars, scanFilterVars>>
    \/ handleStop /\ UNCHANGED <<sevVars, viewVars, fetchVars, urlVars, pageVars, scanFilterVars>>
    \/ handleClear /\ UNCHANGED <<sevVars, viewVars, fetchVars, urlVars, pageVars, scanFilterVars>>
    \/ Unmount /\ UNCHANGED <<sevVars, viewVars, fetchVars, urlVars, pageVars, scanFilterVars>>

SpecFlood == Init /\ [][NextFlood]_vars

(***************************************************************************)
(* Specification of getMaxSeverity: one call on each alert list            *)
(***************************************************************************)

InitSeverity ==
    /\ MonitorInit
    /\ ViewInit
    /\ FetchIdle
    /\ UrlIdle
    /\ PageInit
    /\ sevAlerts \in AlertLists
    /\ sevResult = "none"

NextSeverity == CallGetMaxSeverity

SpecSeverity == InitSeverity /\ [][NextSeverity]_vars

(***************************************************************************)
(* Specification of the request/response views                             *)
(***************************************************************************)

NextViews ==
    \/ \E t \in TxidTexts :
          calls < MaxCalls /\ analyze(t) /\ UNCHANGED <<monitorVars, sevVars, fetchVars, urlVars, pageVars, scanFilterVars>>
    \/ \E h \in HeightTexts, l \in LimitTexts :
          calls < MaxCalls /\ handleScanBlock(h, l) /\ UNCHANGED <<monitorVars, sevVars, fetchVars, urlVars, pageVars, scanFilterVars>>
    \/ \E st \in HeightTexts, en \in EndTexts :
          calls < MaxCalls /\ handleScan(st, en) /\ UNCHANGED <<monitorVars, sevVars, fetchVars, urlVars, pageVars>>
    \/ \E st \in HeightTexts, en \in EndTexts :
          calls < MaxCalls /\ handleAnalyze(st, en) /\ UNCHANGED <<monitorVars, sevVars, fetchVars, urlVars, pageVars, scanFilterVars>>
    \/ \E c \in pending, o \in Outcomes :
          Settle(c, o) /\ UNCHANGED <<monitorVars, sevVars, fetchVars, urlVars, pageVars, scanFilterVars>>

SpecViews == Init /\ [][NextViews]_vars

(***************************************************************************)
(* Specification of one request/response call after the other              *)
(***************************************************************************)

NextFetch ==
    \/ \E c \in Clients, q \in FetchRequests :
          fj.calls < MaxFetchCalls /\ FjBegin(c, q)
    \/ \E r \in Responses : FjResponse(r)
    \/ FjNetworkError
    \/ FjText
    \/ FjJson
    \/ TimePasses

SpecFetch == Init /\ [][NextFetch]_vars

(***************************************************************************)
(* Specification of the URL builders: one call on each options object      *)
(***************************************************************************)

InitUrl ==
    /\ MonitorInit
    /\ SevIdle
    /\ ViewInit
    /\ FetchIdle
    /\ PageInit
    /\ url \in UrlInputs

NextUrl ==
    \/ CallGetBlock
    \/ CallScan
    \/ CallLightning
    \/ CallCreateMonitorStream

SpecUrl == InitUrl /\ [][NextUrl]_vars

(***************************************************************************)
(* Specification of the monitor's stream: the inputs keep their initial    *)
(* values, the backend sends up to MaxStreamMsgs messages of every kind    *)
(***************************************************************************)

NextStream ==
    \/ Len(es) < MaxStreamHandles /\ handleStart
          /\ UNCHANGED <<sevVars, viewVars, fetchVars, urlVars, pageVars, scanFilterVars>>
    \/ \E h \in 1..Len(es) : onopen(h) /\ UNCHANGED <<sevVars, viewVars, fetchVars, urlVars, pageVars, scanFilterVars>>
    \/ \E h \in 1..Len(es), d \in TxData :
          now < MaxStreamMsgs /\ onTx(h, d)
             /\ UNCHANGED <<sevVars, viewVars, fetchVars, urlVars, pageVars, scanFilterVars>>
    \/ \E h \in 1..Len(es) : onerror(h) /\ UNCHANGED <<sevVars, viewVars, fetchVars, urlVars, pageVars, scanFilterVars>>
    \/ handleStop /\ UNCHANGED <<sevVars, viewVars, fetchVars, urlVars, pageVars, scanFilterVars>>
    \/ handleClear /\ UNCHANGED <<sevVars, viewVars, fetchVars, urlVars, pageVars, scanFilterVars>>
    \/ Unmount /\ UNCHANGED <<sevVars, viewVars, fetchVars, urlVars, pageVars, scanFilterVars>>

SpecStream == Init /\ [][NextStream]_vars

(***************************************************************************)
(* Specification of the page: the monitor and the four request/response    *)
(* views side by side, each view submitted with a valid input              *)
(***************************************************************************)

\* what the network does with a request of the page: success, no connection, timeout
AppOutcomes == {[kind |-> "ok"], [kind |-> "network"], [kind |-> "timeout"]}

NextApp ==
    \/ Len(es) < MaxAppHandles /\ handleStart
          /\ UNCHANGED <<sevVars, viewVars, fetchVars, urlVars, pageVars, scanFilterVars>>
    \/ \E h \in 1..Len(es) : onopen(h) /\ UNCHANGED <<sevVars, viewVars, fetchVars, urlVars, pageVars, scanFilterVars>>
    \/ \E h \in 1..Len(es) :
          now < MaxAppMsgs /\ onTx(h, FloodData(now + 1))
             /\ UNCHANGED <<sevVars, viewVars, fetchVars, urlVars, pageVars, scanFilterVars>>
    \/ \E h \in 1..Len(es) : onerror(h) /\ UNCHANGED <<sevVars, viewVars, fetchVars, urlVars, pageVars, scanFilterVars>>
    \/ calls < MaxAppCalls /\ analyze(<<"a">>)
          /\ UNCHANGED <<monitorVars, sevVars, fetchVars, urlVars, pageVars, scanFilterVars>>
    \/ calls < MaxAppCalls /\ handleScanBlock(<<"7">>, <<>>)
          /\ UNCHANGED <<monitorVars, sevVars, fetchVars, urlVars, pageVars, scanFilterVars>>
    \/ calls < MaxAppCalls /\ handleScan(<<"7">>, <<>>)
          /\ UNCHANGED <<monitorVars, sevVars, fetchVars, urlVars, pageVars>>
    \/ calls < MaxAppCalls /\ handleAnalyze(<<"7">>, <<>>)
          /\ UNCHANGED <<monitorVars, sevVars, fetchVars, urlVars, pageVars, scanFilterVars>>
    \/ \E c \in pending, o \in AppOutcomes :
          Settle(c, o) /\ UNCHANGED <<monitorVars, sevVars, fetchVars, urlVars, pageVars, scanFilterVars>>

SpecApp == Init /\ [][NextApp]_vars

(***************************************************************************)
(* Specification of the page: the four forms behind their controls, and    *)
(* the header search                                                       *)
(***************************************************************************)

NextPage ==
    \/ \E t \in TxidTexts :
          calls < MaxPageCalls /\ SubmitTx(t)
             /\ UNCHANGED <<monitorVars, sevVars, fetchVars, urlVars, pageVars, scanFilterVars>>
    \/ \E t \in HeaderTexts :
          calls < MaxPageCalls /\ handleHeaderSearch(t)
             /\ UNCHANGED <<monitorVars, sevVars, fetchVars, urlVars, scanFilterVars>>
    \/ \E h \in HeightTexts, l \in LimitTexts :
          calls < MaxPageCalls /\ SubmitBlock(h, l)
             /\ UNCHANGED <<monitorVars, sevVars, fetchVars, urlVars, pageVars, scanFilterVars>>
    \/ \E st \in HeightTexts, en \in EndTexts :
          calls < MaxPageCalls /\ SubmitScan(st, en)
             /\ UNCHANGED <<monitorVars, sevVars, fetchVars, urlVars, pageVars>>
    \/ \E st \in HeightTexts, en \in EndTexts :
          calls < MaxPageCalls /\ SubmitLightning(st, en)
             /\ UNCHANGED <<monitorVars, sevVars, fetchVars, urlVars, pageVars, scanFilterVars>>
    \/ \E c \in pending, o \in AppOutcomes :
          Settle(c, o)
             /\ UNCHANGED <<monitorVars, sevVars, fetchVars, urlVars, pageVars, scanFilterVars>>

SpecPage == Init /\ [][NextPage]_vars

(***************************************************************************)
(* Specification of the security scanner: scans, their responses, and the  *)
(* filter chips                                                            *)
(***************************************************************************)

NextScanner ==
    \/ \E en \in EndTexts :
          calls < MaxScans /\ SubmitScan(<<"7">>, en)
             /\ UNCHANGED <<monitorVars, sevVars, fetchVars, urlVars, pageVars>>
    \/ \E c \in pending, o \in ScanOutcomes :
          Settle(c, o)
             /\ UNCHANGED <<monitorVars, sevVars, fetchVars, urlVars, pageVars, scanFilterVars>>
    \/ \E s \in SeverityChips :
          setSeverityFilter(s)
             /\ UNCHANGED <<monitorVars, sevVars, fetchVars, urlVars, pageVars>>
    \/ \E d \in DetectionChips :
          setDetectionFilter(d)
             /\ UNCHANGED <<monitorVars, sevVars, fetchVars, urlVars, pageVars>>

SpecScanner == Init /\ [][NextScanner]_vars

(***************************************************************************)
(* Specification of the block explorer on the page: scans, their           *)
(* responses, the filter chips and clicks on the rows shown                *)
(***************************************************************************)

NextBlock ==
    \/ \E l \in LimitTexts :
          calls < MaxBlockCalls /\ SubmitBlock(<<"7">>, l)
             /\ UNCHANGED <<monitorVars, sevVars, fetchVars, urlVars, pageVars, scanFilterVars>>
    \/ \E c \in pending :
          \E o \in IF c.view = "block" THEN BlockOutcomes ELSE AppOutcomes :
             Settle(c, o)
                /\ UNCHANGED <<monitorVars, sevVars, fetchVars, urlVars, pageVars, scanFilterVars>>
    \/ \E f \in {"timelocks", "alerts", "all"} :
          setFilter(f)
             /\ UNCHANGED <<monitorVars, sevVars, fetchVars, urlVars, scanFilterVars>>
    \/ \E i \in 1..Len(filteredBlock) :
          calls < MaxBlockCalls /\ clickTxRow(filteredBlock[i])
             /\ UNCHANGED <<monitorVars, sevVars, fetchVars, urlVars, scanFilterVars>>

SpecBlock == Init /\ [][NextBlock]_vars

(***************************************************************************)
(* Specification of the block explorer with collapsible rows               *)
(***************************************************************************)

NextCollapsible ==
    \/ \E l \in LimitTexts :
          calls < MaxBlockCalls /\ ~(loading["block"]) /\ handleScanCollapsible(<<"7">>, l)
             /\ UNCHANGED <<monitorVars, sevVars, fetchVars, urlVars, scanFilterVars>>
    \/ \E c \in pending, o \in BlockOutcomes :
          Settle(c, o)
             /\ UNCHANGED <<monitorVars, sevVars, fetchVars, urlVars, pageVars, scanFilterVars>>
    \/ \E f \in {"timelocks", "alerts", "all"} :
          /\ filter' = f
          /\ UNCHANGED <<selectedTxid, expandedTxs, viewVars>>
          /\ UNCHANGED <<monitorVars, sevVars, fetchVars, urlVars, scanFilterVars>>
    \/ \E i \in 1..Len(IF data["block"] = NoData THEN <<>> ELSE data["block"].body.transactions) :
          toggleTx(data["block"].body.transactions[i].txid)
             /\ UNCHANGED <<monitorVars, sevVars, fetchVars, urlVars, scanFilterVars>>

SpecCollapsible == Init /\ [][NextCollapsible]_vars

(***************************************************************************)
(* Specification of the monitor behind its controls: a disabled input or   *)
(* button takes no event                                                   *)
(***************************************************************************)

NextControls ==
    \/ \E t \in IntervalTexts :
          ChangeInterval(t) /\ UNCHANGED <<sevVars, viewVars, fetchVars, urlVars, pageVars, scanFilterVars>>
    \/ \E v \in MinSeverityOptions :
          ChangeMinSeverity(v) /\ UNCHANGED <<sevVars, viewVars, fetchVars, urlVars, pageVars, scanFilterVars>>
    \/ Len(es) < MaxHandles /\ ClickStart
          /\ UNCHANGED <<sevVars, viewVars, fetchVars, urlVars, pageVars, scanFilterVars>>
    \/ \E h \in 1..Len(es) : onopen(h) /\ UNCHANGED <<sevVars, viewVars, fetchVars, urlVars, pageVars, scanFilterVars>>
    \/ \E h \in 1..Len(es) :
          now < MaxMsgs /\ onTx(h, FloodData(now + 1))
             /\ UNCHANGED <<sevVars, viewVars, fetchVars, urlVars, pageVars, scanFilterVars>>
    \/ \E h \in 1..Len(es) : onerror(h) /\ UNCHANGED <<sevVars, viewVars, fetchVars, urlVars, pageVars, scanFilterVars>>
    \/ ClickStop /\ UNCHANGED <<sevVars, viewVars, fetchVars, urlVars, pageVars, scanFilterVars>>
    \/ handleClear /\ UNCHANGED <<sevVars, viewVars, fetchVars, urlVars, pageVars, scanFilterVars>>
    \/ Unmount /\ UNCHANGED <<sevVars, viewVars, fetchVars, urlVars, pageVars, scanFilterVars>>

SpecControls == Init /\ [][NextControls]_vars

(***************************************************************************)
(* Properties                                                              *)
(***************************************************************************)

\* handles that are not closed
Live(handles) == {h \in 1..Len(handles) : handles[h].readyState # "CLOSED"}

\* C1: in the mempool monitor, after any sequence of start, stop, clear,
\* connection-open, connection-error and 'tx' message events, the event buffer
\* never holds more than MAX_EVENTS (200) entries.
C1_BufferBounded == Len(events) <= MAX_EVENTS

\* more than 200 messages were received and the buffer is full
C1_Witness == now > MAX_EVENTS /\ Len(events) = MAX_EVENTS

\* C2: once more than 200 valid 'tx' messages were ingested with no clear in between,
\* the buffer holds exactly the 200 most recently received events, newest first:
\* entry i is the i-th most recent message of the stream, whose n-th message
\* carries txid n and is stamped n.
C2_MostRecentNewestFirst ==
    accepted > MAX_EVENTS =>
        /\ Len(events) = MAX_EVENTS
        /\ \A i \in 1..MAX_EVENTS :
              /\ events[i].txid = now - i + 1
              /\ events[i].receivedAt = now - i + 1

\* 202 messages ingested without a clear: messages 1 and 2 are evicted
C2_Witness == accepted = MAX_EVENTS + 2 /\ events[MAX_EVENTS].txid = 3

\* C3: at every moment at most one EventSource created by the monitor is not
\* closed, and it is the one referenced (so no earlier handle can deliver events);
\* a start request, in any state, leaves exactly one such handle: the new one.
C3_NoLeak ==
    /\ Cardinality(Live(es)) <= 1
    /\ \A h \in Live(es) : h = eventSourceRef /\ h = Len(es)

C3_StartStep ==
    handleStart =>
        /\ Live(es') = {Len(es) + 1}
        /\ eventSourceRef' = Len(es) + 1
        /\ \A h \in 1..Len(es) : es'[h].readyState = "CLOSED"

C3_SingleHandle == [](C3_NoLeak) /\ [][C3_StartStep]_vars

\* a start was issued while connected: the connected handle is closed, the new
\* one is connecting
C3_Witness ==
    /\ status = "connected"
    /\ Len(es) = 2
    /\ es[1].readyState = "CLOSED"
    /\ es[2].readyState = "CONNECTING"

\* C4: a stop request, in whatever state it is issued, closes the active handle,
\* clears the handle reference and sets the connection state to disconnected;
\* a start issued afterwards opens a fresh, connecting handle (which can then
\* reach connected: the witness).
C4_StopStep ==
    handleStop =>
        /\ eventSourceRef' = 0
        /\ status' = "disconnected"
        /\ Live(es') = {}
        /\ Len(es') = Len(es)

C4_StartAfterStop ==
    (handleStart /\ eventSourceRef = 0) =>
        /\ eventSourceRef' = Len(es) + 1
        /\ es'[eventSourceRef'].readyState = "CONNECTING"

C4_Stop == [][C4_StopStep /\ C4_StartAfterStop]_vars

\* the first handle was closed and a second one, opened afterwards, is connected
C4_Witness ==
    /\ status = "connected"
    /\ eventSourceRef = 2
    /\ es[1].readyState = "CLOSED"
    /\ es[2].readyState = "OPEN"

\* C5: once the monitor view is unmounted, in whatever connection state that
\* happened, no handle opened by the view remains open or connecting.
C5_UnmountCloses == ~mounted => Live(es) = {}

\* unmounted while connected: the handle that was open is closed
C5_Witness ==
    /\ ~mounted
    /\ status = "connected"
    /\ eventSourceRef # 0
    /\ es[eventSourceRef].readyState = "CLOSED"

\* C6: when the active subscription reports a connection failure, from connected
\* or from disconnected (still connecting), the connection state becomes error and
\* that handle is closed; nothing is thrown into the hosting view and the event
\* buffer is left as it was.
C6_ErrorStep ==
    \A h \in 1..Len(es) :
        onerror(h) =>
            /\ h = eventSourceRef
            /\ status' = "error"
            /\ es'[h].readyState = "CLOSED"
            /\ events' = events
            /\ uncaught' = FALSE

C6_Error == [][C6_ErrorStep]_vars

\* the connection failed after events were received: they are still buffered
C6_Witness ==
    /\ status = "error"
    /\ eventSourceRef # 0
    /\ es[eventSourceRef].readyState = "CLOSED"
    /\ Len(events) > 0

\* a message whose data is a well-formed MonitorEvent payload
WellFormed(d) == d.json /\ IsMonitorEvent(d.value)

\* C7: a malformed stream message (data that is not a well-formed MonitorEvent
\* payload, including data that cannot be parsed at all) is dropped: it changes
\* neither the connection state nor the event buffer.
C7_MalformedStep ==
    \A h \in 1..Len(es) : \A d \in TxData :
        (~WellFormed(d) /\ onTx(h, d)) =>
            /\ status' = status
            /\ events' = events

C7_MalformedDropped == [][C7_MalformedStep]_vars

\* C8: the clear action empties the event buffer whatever its content and whatever
\* the connection state, and leaves the connection state, the handle reference and
\* every handle unchanged; events received after a clear are buffered again.
C8_ClearStep ==
    handleClear =>
        /\ events' = <<>>
        /\ status' = status
        /\ eventSourceRef' = eventSourceRef
        /\ es' = es

C8_BufferedAgain ==
    \A h \in 1..Len(es) :
        (onTx(h, FloodData(now + 1)) /\ events = <<>>) => Len(events') = 1

C8_Clear == [][C8_ClearStep /\ C8_BufferedAgain]_vars

\* a full buffer was cleared while connected and the next message is buffered
C8_Witness ==
    /\ status = "connected"
    /\ now > MAX_EVENTS + 1
    /\ Len(events) = 1
    /\ events[1].txid = now

\* critical > warning > informational
SeverityRank(s) ==
    CASE s = "critical" -> 3 [] s = "warning" -> 2 [] s = "informational" -> 1

\* C9: for every list of alerts getMaxSeverity returns the highest severity present
\* (critical > warning > informational), and null exactly when the list is empty.
C9_MaxSeverity ==
    sevResult # "none" =>
        IF sevAlerts = <<>>
        THEN sevResult = Null
        ELSE /\ \E i \in 1..Len(sevAlerts) : sevAlerts[i].severity = sevResult
             /\ \A i \in 1..Len(sevAlerts) :
                   SeverityRank(sevAlerts[i].severity) <= SeverityRank(sevResult)

\* [warning, informational] gave warning
C9_Witness ==
    /\ sevAlerts = <<[severity |-> "warning"], [severity |-> "informational"]>>
    /\ sevResult = "warning"

\* a text that is a positive decimal number
ValidHeightText(t) ==
    /\ t # <<>>
    /\ \A i \in 1..Len(t) : IsDigit(t[i])
    /\ DigitsValue(t, 0) > 0

\* the step issued exactly one API call, for view v
IssuesOneCall(v) ==
    /\ calls' = calls + 1
    /\ pending \subseteq pending'
    /\ Cardinality(pending' \ pending) = 1
    /\ \A c \in pending' \ pending : c.view = v /\ c.id = calls'

\* the step cleared the previous result and error of view v and set loading
ClearsAndLoads(v) ==
    /\ loading'[v] = TRUE
    /\ error'[v] = Null
    /\ data'[v] = NoData
    /\ \A w \in Views \ {v} :
          loading'[w] = loading[w] /\ error'[w] = error[w] /\ data'[w] = data[w]

\* C10: in each request/response view a submission with valid input clears the
\* previous result and error, sets loading and issues exactly one API call; when
\* that call completes exactly one of result and error is set and loading is cleared.
C10_SubmitStep ==
    /\ \A t \in TxidTexts :
          (Trim(t) # <<>> /\ analyze(t)) =>
              IssuesOneCall("transaction") /\ ClearsAndLoads("transaction")
    /\ \A h \in HeightTexts : \A l \in LimitTexts :
          (ValidHeightText(h) /\ handleScanBlock(h, l)) =>
              IssuesOneCall("block") /\ ClearsAndLoads("block")
    /\ \A st \in HeightTexts : \A en \in EndTexts :
          (ValidHeightText(st) /\ handleScan(st, en)) =>
              IssuesOneCall("scan") /\ ClearsAndLoads("scan")
    /\ \A st \in HeightTexts : \A en \in EndTexts :
          (ValidHeightText(st) /\ handleAnalyze(st, en)) =>
              IssuesOneCall("lightning") /\ ClearsAndLoads("lightning")

C10_SettleStep ==
    \A c \in pending : \A o \in Outcomes :
        Settle(c, o) =>
            /\ loading'[c.view] = FALSE
            /\ pending' = pending \ {c}
            /\ calls' = calls
            /\ (data'[c.view].call = c.id /\ error' = error)
                 # (error'[c.view] # Null /\ data' = data)

C10_RequestLifecycle == [][C10_SubmitStep /\ C10_SettleStep]_vars

\* a scan was submitted and has failed: the error is stored, loading is cleared
C10_Witness ==
    /\ calls > 0
    /\ pending = {}
    /\ ~loading["scan"]
    /\ error["scan"] # Null
    /\ data["scan"] = NoData


\* the call has ended: its promise is fulfilled or rejected
Ended == fj.phase \in {"returned", "thrown"}

\* C11: every request/response call of the API client terminates: once the
\* timeout (120 s by default) has elapsed since the call was made, the call has
\* returned a result or thrown an error, whether the server stalls before
\* responding or while sending the body.
C11_TerminatesWithinTimeout ==
    fj.elapsedMs >= DEFAULT_TIMEOUT_MS => Ended

\* fetchJson has ended on a response with a non-success status
EndedOnNonSuccess ==
    /\ fj.client = "fetchJson"
    /\ Ended
    /\ fj.response # NoResponse
    /\ ~fj.response.ok

\* the call was rejected with an ApiError carrying the status code of the response
ThrewApiErrorWithStatus ==
    /\ fj.phase = "thrown"
    /\ fj.outcome.class = "ApiError"
    /\ fj.outcome.status = fj.response.status

\* C12 as stated: on a non-success status the call fails with an error carrying
\* the status code and the response body text as its message, the status line
\* 'HTTP <status>: <statusText>' when the body cannot be read; it never returns.
C12_MessageIsBodyText ==
    EndedOnNonSuccess =>
        /\ ThrewApiErrorWithStatus
        /\ fj.outcome.message =
              IF fj.response.bodyReadable THEN fj.response.body
              ELSE "HTTP " \o ToString(fj.response.status) \o ": " \o fj.response.statusText

\* C12, amended: on a non-success status the call fails with an error carrying
\* the status code; its message is the response body text when that text is not
\* empty, and the status line 'HTTP <status>: <statusText>' when the body cannot
\* be read or is empty; it never returns a result.
C12_NonSuccessFails ==
    EndedOnNonSuccess =>
        /\ ThrewApiErrorWithStatus
        /\ fj.outcome.message =
              IF fj.response.bodyReadable /\ fj.response.body # "" THEN fj.response.body
              ELSE "HTTP " \o ToString(fj.response.status) \o ": " \o fj.response.statusText

\* a 404 whose body could not be read has been thrown with the status line
C12_Witness ==
    /\ EndedOnNonSuccess
    /\ fj.response.status = 404
    /\ ~fj.response.bodyReadable
    /\ fj.outcome.message = "HTTP 404: Error"

\* C13: the API client performs no retries: each call has issued exactly one
\* HTTP request, and a failure of that attempt is thrown to the caller.
C13_NoRetry ==
    /\ fj.requests = fj.calls
    /\ (fj.phase = "thrown") = (fj.outcome # NoOutcome /\ ~fj.outcome.ok)
    /\ (fj.phase = "returned") = fj.outcome.ok

\* the second call has failed on the network: two calls, two requests
C13_Witness ==
    /\ fj.calls = 2
    /\ fj.requests = 2
    /\ fj.phase = "thrown"
    /\ fj.outcome = NetworkError

\* C14: every failure of a request/response call (timeout/abort, network
\* failure, non-success status, unparseable success body) reaches the caller
\* as an ApiError; no other error type escapes the API client.
C14_OnlyApiErrorEscapes ==
    fj.phase = "thrown" => fj.outcome.class = "ApiError"

\* the text a query parameter is expected to carry for the value of an option
TextOf(key, v) ==
    IF key = "end" THEN (IF v.nan THEN "NaN" ELSE ToString(v.val))
    ELSE IF key \in {"offset", "limit", "start", "interval"} THEN ToString(v)
    ELSE v

\* the query parameters of the URL built
BuiltQuery == IF url.result.search = <<>> THEN NoParams ELSE url.result.search[2]

\* C15: for every combination of set and unset optional parameters, the URL
\* built by getBlock, scan, lightning and createMonitorStream contains exactly
\* the query parameters that were set (with the required start for scan and
\* lightning) and none for unset ones; with no parameter set, getBlock and
\* createMonitorStream produce no query string at all.
C15_ExactQueryParameters ==
    url.built =>
        /\ DOMAIN BuiltQuery = DOMAIN url.options
        /\ \A k \in DOMAIN BuiltQuery : BuiltQuery[k] = TextOf(k, url.options[k])
        /\ url.fn \in {"scan", "lightning"} => "start" \in DOMAIN BuiltQuery
        /\ url.fn \in {"getBlock", "createMonitorStream"} =>
              (url.result.search = <<>>) = (url.options = NoParams)

\* getBlock was called with offset 0 as its only option: the URL carries offset=0
C15_Witness ==
    /\ url.built
    /\ url.fn = "getBlock"
    /\ url.options = ("offset" :> 0)
    /\ url.result.search = <<"?", ("offset" :> "0")>>

C16_Step ==
    /\ handleStart => status' = status
    /\ (status # "connected" /\ status' = "connected") =>
          /\ eventSourceRef # 0
          /\ onopen(eventSourceRef)
    /\ \A h \in 1..Len(es) : \A d \in TxData :
          (d.json /\ mounted /\ onTx(h, d)) =>
              /\ es[h].readyState = "OPEN"
              /\ Len(events') = IF Len(events) < MAX_EVENTS THEN Len(events) + 1
                                ELSE MAX_EVENTS
              /\ events'[1] = [receivedAt |-> now'] @@ d.value
              /\ events = <<>> => Len(events') = 1

\* C16: the start request leaves the connection state as it is; the state
\* becomes connected only in the step in which the handle opened last signals
\* that it is ready; on an open handle each valid 'tx' message puts exactly one
\* DisplayEvent at the front of the buffer, so the first one makes the count 1.
C16_ConnectedOnReady == [][C16_Step]_vars

\* started from disconnected, the first handle is open and its first message is buffered
C16_Witness ==
    /\ Len(es) = 1
    /\ es[1].readyState = "OPEN"
    /\ status = "connected"
    /\ Len(events) = 1
    /\ accepted = 1

C17_Step ==
    /\ (status = "error" /\ handleStart) =>
          /\ eventSourceRef' = Len(es) + 1
          /\ es'[eventSourceRef'].readyState = "CONNECTING"
          /\ Live(es') = {eventSourceRef'}
    /\ \A h \in 1..Len(es) :
          (status = "error" /\ mounted /\ onopen(h)) =>
              /\ h = eventSourceRef
              /\ status' = "connected"
    /\ \A h \in 1..Len(es) :
          (status = "error" /\ mounted /\ onerror(h)) =>
              /\ status' = "error"
              /\ Live(es') = {}

\* C17: in the error state a start request opens a new handle, as it does from
\* disconnected; when that handle signals ready the state becomes connected,
\* and when it fails the state is error again with no handle left open.
C17_RestartFromError == [][C17_Step]_vars

\* a start request was made in the error state: the new handle is connecting
C17_Witness ==
    /\ status = "error"
    /\ eventSourceRef = 2
    /\ es[1].readyState = "CLOSED"
    /\ es[2].readyState = "CONNECTING"

\* the buffer holds one entry for each message accepted since the last clear,
\* up to MAX_EVENTS, the later arrival before the earlier
C18_Buffer ==
    /\ Len(events) = IF accepted < MAX_EVENTS THEN accepted ELSE MAX_EVENTS
    /\ \A i \in 1..(Len(events) - 1) : events[i].receivedAt > events[i + 1].receivedAt

\* the buffer changes only by an accepted message going to its front, the rest
\* keeping its order (cut at MAX_EVENTS), and by a clear
C18_Step ==
    \/ events' = events
    \/ handleClear /\ events' = <<>>
    \/ \E h \in 1..Len(es) : \E d \in TxData :
          /\ d.json
          /\ onTx(h, d)
          /\ LET all == <<[receivedAt |-> now'] @@ d.value>> \o events
             IN events' = IF Len(all) <= MAX_EVENTS THEN all
                          ELSE SubSeq(all, 1, MAX_EVENTS)

\* C18: the buffer reflects arrival order only: it is always the reverse of
\* the sequence of messages accepted since the last clear (truncated to 200),
\* neither reordered by content nor deduplicated, so two messages with the
\* same txid produce two buffer entries.
C18_ArrivalOrder == [](C18_Buffer) /\ [][C18_Step]_vars

\* two messages with the same txid were accepted: both are in the buffer
C18_Witness ==
    /\ accepted = 2
    /\ Len(events) = 2
    /\ "txid" \in DOMAIN events[1]
    /\ "txid" \in DOMAIN events[2]
    /\ events[1].txid = events[2].txid
    /\ events[1].receivedAt > events[2].receivedAt

C19_Step ==
    \A c \in pending : \A o \in Outcomes :
        (o.kind # "ok" /\ Settle(c, o)) =>
            /\ error'[c.view] # Null
            /\ data' = data
            /\ \A w \in Views \ {c.view} :
                  loading'[w] = loading[w] /\ error'[w] = error[w]
            /\ status' = status
            /\ eventSourceRef' = eventSourceRef
            /\ es' = es
            /\ events' = events
            /\ uncaught' = uncaught

\* C19: a failed request of one view is caught in that view and stored in that
\* view's error state only: nothing is thrown further, the loading, error and
\* result state of every other view stays as it is, and so do the monitor's
\* connection state, handle and buffer.
C19_FailureStaysInView == [][C19_Step]_vars

\* the transaction view has failed while the monitor is connected with one
\* buffered event and the scan view holds a result
C19_Witness ==
    /\ error["transaction"] # Null
    /\ data["scan"] # NoData
    /\ error["scan"] = Null
    /\ status = "connected"
    /\ Len(events) = 1
    /\ ~uncaught

\* the messages that tell the user the request ran out of time
TimeoutMessages ==
    {"Request timed out. Block scan can take 1-2 minutes. Try again or reduce the limit."}

C20_Step ==
    \A c \in pending :
        Settle(c, [kind |-> "timeout"]) => error'[c.view] \in TimeoutMessages

\* C20: when a request/response call ends because the timeout elapsed, the view
\* that issued it (transaction, block, scan or lightning) stores a generic
\* timeout message as its error.
C20_TimeoutMessage == [][C20_Step]_vars

\* the calls of view v that are in flight
InFlight(v) == {c \in pending : c.view = v}

\* C21: each request/response view has at most one request in flight at any
\* time, the transaction view included when a txid is selected from the
\* header search or from another view.
C21_OneInFlightPerView ==
    \A v \in Views : Cardinality(InFlight(v)) <= 1

\* in the transaction view a response never replaces the result of a later submission
C29_Step ==
    \A c \in pending : \A o \in Outcomes :
        (/\ c.view = "transaction"
         /\ data["transaction"] # NoData
         /\ data["transaction"].call > c.id
         /\ Settle(c, o)) => data'["transaction"] = data["transaction"]

\* in the transaction view result and error are never both set, and loading is
\* false only when no request is in flight
C29_State ==
    /\ ~(data["transaction"] # NoData /\ error["transaction"] # Null)
    /\ ~loading["transaction"] => InFlight("transaction") = {}

\* C29: in the transaction view, once no request is in flight the stored outcome
\* is the one of the most recently submitted txid: a response to an earlier
\* submission never overwrites the result or error of a later one, result and
\* error are never both set, and loading is false only when no request is in flight.
C29_LatestOutcomeWins == [](C29_State) /\ [][C29_Step]_vars

\* the alerts of the last scan response
ScanResponseAlerts ==
    IF data["scan"] = NoData THEN <<>> ELSE data["scan"].body.alerts

\* the alert matches both selected filters
MatchesFilters(a) ==
    /\ severityFilter = "all" \/ a.severity = severityFilter
    /\ detectionFilter = "all" \/ a.detection_type = detectionFilter

\* the positions of the response's alerts that match both filters
MatchingPositions ==
    {i \in 1..Len(ScanResponseAlerts) : MatchesFilters(ScanResponseAlerts[i])}

\* the k-th shown alert is the k-th matching alert of the response
C22_State ==
    /\ Len(filtered) = Cardinality(MatchingPositions)
    /\ \A i \in MatchingPositions :
          filtered[Cardinality({j \in MatchingPositions : j <= i})] = ScanResponseAlerts[i]
    /\ severityFilter = "critical" =>
          \A k \in 1..Len(filtered) : filtered[k].severity = "critical"

\* a scan that is started resets both filters
C22_Step ==
    \A st \in HeightTexts : \A en \in EndTexts :
        (ValidHeightText(st) /\ calls' = calls + 1 /\ handleScan(st, en)) =>
            severityFilter' = "all" /\ detectionFilter' = "all"

\* C22: in the security scanner the displayed alert list is exactly the alerts
\* of the last response that match both the selected severity filter and the
\* selected detection-type filter ('all' matches everything), in response
\* order; with severity filter critical every displayed alert is critical;
\* starting a new scan resets both filters to 'all'.
C22_FilteredAlerts == [](C22_State) /\ [][C22_Step]_vars

\* a response with a critical and a warning alert is shown through the
\* critical chip: one alert is displayed
C22_Witness ==
    /\ severityFilter = "critical"
    /\ Len(ScanResponseAlerts) = 2
    /\ ScanResponseAlerts[1].severity = "warning"
    /\ ScanResponseAlerts[2].severity = "critical"
    /\ filtered = <<ScanResponseAlerts[2]>>

\* the transactions of the last block response
BlockTransactionsReturned ==
    IF data["block"] = NoData THEN <<>> ELSE data["block"].body.transactions

\* the place of a transaction in the response
PositionReturned(t) ==
    CHOOSE i \in 1..Len(BlockTransactionsReturned) : BlockTransactionsReturned[i].txid = t.txid

\* C23: in the block view with the filter set to alerts, every shown
\* transaction has at least one alert, the shown transactions are a subset of
\* the returned ones in the same order, and the number shown never exceeds
\* the number returned.
C23_AlertsFilterSubset ==
    filter = "alerts" =>
        /\ \A k \in 1..Len(filteredBlock) :
              /\ "alerts" \in DOMAIN filteredBlock[k]
              /\ Len(filteredBlock[k].alerts) >= 1
              /\ \E i \in 1..Len(BlockTransactionsReturned) :
                    BlockTransactionsReturned[i] = filteredBlock[k]
        /\ \A k, l \in 1..Len(filteredBlock) :
              k < l => PositionReturned(filteredBlock[k]) < PositionReturned(filteredBlock[l])
        /\ Len(filteredBlock) <= Len(BlockTransactionsReturned)

\* of two returned transactions only the second has an alert: it alone is shown
C23_Witness ==
    /\ filter = "alerts"
    /\ Len(BlockTransactionsReturned) = 2
    /\ ~HasAlerts(BlockTransactionsReturned[1])
    /\ filteredBlock = <<BlockTransactionsReturned[2]>>

\* C24: in the block view, clicking a transaction row expands its details and
\* a second click on the same row collapses them again: a click on a row
\* toggles that row in the set of expanded rows and no other row.
C24_RowClickToggles ==
    [][\A i \in 1..Len(filteredBlock) :
          clickTxRow(filteredBlock[i]) =>
              expandedTxs' = IF filteredBlock[i].txid \in expandedTxs
                             THEN expandedTxs \ {filteredBlock[i].txid}
                             ELSE expandedTxs \cup {filteredBlock[i].txid}]_vars

\* with collapsible rows: toggling changes the toggled row only, a second
\* toggle undoes the first, and a scan that starts collapses all rows
ToggleTxAlgebra ==
    /\ [][\A i \in 1..Len(BlockTransactionsReturned) :
            LET t == BlockTransactionsReturned[i].txid
                once == IF t \in expandedTxs THEN expandedTxs \ {t} ELSE expandedTxs \cup {t}
                twice == IF t \in once THEN once \ {t} ELSE once \cup {t}
            IN toggleTx(t) =>
                  /\ (t \in expandedTxs') # (t \in expandedTxs)
                  /\ expandedTxs' \ {t} = expandedTxs \ {t}
                  /\ twice = expandedTxs]_vars
    /\ [][calls' = calls + 1 => expandedTxs' = {}]_vars

C26_DisconnectedNoLiveHandle ==
    (mounted /\ status = "disconnected") => Live(es) = {}

\* the handle createMonitorStream opens for the values now shown in the inputs
HandleForInputs ==
    createMonitorStream([interval |-> OrDefault(ParseInt(intervalSecs), 10),
                         min_severity |-> minSeverity])

\* C27: whenever the monitor is connected, the interval and minimum-severity
\* parameters with which the active handle was opened equal the values
\* currently shown in the interval and severity inputs (an unparseable or zero
\* interval counting as 10).
C27_ParametersMatchInputs ==
    (mounted /\ status = "connected" /\ eventSourceRef # 0) =>
        es[eventSourceRef].query = HandleForInputs.query

\* a step of start, stop, connection-open, connection-error or unmount keeps
\* the buffer; a step that changes it is a clear or a 'tx' message that parsed
C28_Step ==
    /\ (\/ handleStart
        \/ handleStop
        \/ Unmount
        \/ \E h \in 1..Len(es) : onopen(h) \/ onerror(h)) => events' = events
    /\ events' # events =>
          \/ handleClear
          \/ \E h \in 1..Len(es), d \in TxData : onTx(h, d) /\ ~JSONparse(d).threw

\* C28: only an accepted 'tx' message and the clear action change the event
\* buffer: start, stop, connection-open and connection-error leave it
\* unchanged, so events buffered in one session are still present, in the same
\* order, after a stop, an error or a restart.
C28_BufferFrame == [][C28_Step]_vars

\* two events were buffered on the first handle; after it was closed and a
\* second handle was requested, which has not opened yet, both are still there
C28_Witness ==
    /\ Len(es) = 2
    /\ es[1].readyState = "CLOSED"
    /\ es[2].readyState = "CONNECTING"
    /\ Len(events) = 2
    /\ events[1].receivedAt = 2
    /\ events[2].receivedAt = 1

\* a height/start text that is empty, has no digit, is a negative number, or is zero
InvalidHeightText(t) ==
    \/ t = <<>>
    \/ \A i \in 1..Len(t) : ~IsDigit(t[i])
    \/ Len(t) > 1 /\ t[1] = "-" /\ \A i \in 2..Len(t) : IsDigit(t[i])
    \/ (\A i \in 1..Len(t) : IsDigit(t[i])) /\ DigitsValue(t, 0) = 0

\* the step issued no call and left every view's loading, error and result,
\* and the scanner's filters, as they were
NothingSubmitted ==
    /\ UNCHANGED <<loading, error, data, pending, calls>>
    /\ UNCHANGED <<severityFilter, detectionFilter>>

TypeOK ==
    /\ status \in ConnectionStatus
    /\ eventSourceRef \in 0..Len(es)
    /\ \A h \in 1..Len(es) : es[h].readyState \in ReadyState
    /\ filter \in {"timelocks", "alerts", "all"}
    /\ severityFilter \in SeverityChips
    /\ detectionFilter \in DetectionChips
    /\ \A v \in Views : loading[v] \in BOOLEAN

====
